---- MODULE Spec2Model ----
(***************************************************************************)
(* Session phase state machine of the Vipassana timer.                     *)
(*                                                                         *)
(*  - The session orchestrator is the App component of                     *)
(*    cloudflare-app/src/App.tsx (lines 1-459): its React state, its refs, *)
(*    its effects and its click handlers.  One action of the model is one  *)
(*    browser task: the handler, the render it schedules (React batches    *)
(*    the setState calls of one handler) and the effects of that render.   *)
(*  - The phase transition policy is utils/phase (getNextPhase,            *)
(*    getFirstPhase, getAudioForPhase), modelled as operators and          *)
(*    exercised by the specification PolicySpec.                           *)
(*                                                                         *)
(* Time is scaled: the model draws the minutes from 1..MaxMinutes in place *)
(* of 30/60/90/120, and its minute has SecondsPerMinute seconds in place   *)
(* of 60.                                                                  *)
(***************************************************************************)
EXTENDS Integers, Sequences, FiniteSets, TLC

\* ------------------------------------------------------------------ bounds
MaxMinutes == 1
MaxFiles == 1
AudioSeconds == 1
SecondsPerMinute == 2

\* ------------------------------------------------------------------- types
Null == "null"

\* null where the other values are objects (Metadata, SessionConfig).
NullObj == [null |-> TRUE]

IsNull(x) == "null" \in DOMAIN x

Buckets == {"2min", "5min", "10min"}

ChantingDuration == Buckets \cup {"none"}

MeditationDuration == 1..MaxMinutes

SessionPhase ==
  {"idle", "gong", "intro", "meditation", "outro_chanting", "outro",
   "guided_session", "complete"}

AppPhase ==
  {"idle", "gong", "intro", "meditation", "outro_chanting", "outro", "complete"}

SessionMode == {"custom", "guided"}

InstructionType == {"short", "long"}

\* File names of a catalog bucket: the first n names of this list.
FileNames == <<"c1.mp3", "c2.mp3", "c3.mp3", "c4.mp3">>

ChantList(n) == SubSeq(FileNames, 1, n)

\* A catalog (Metadata.chanting): each bucket holds a list of files, empty
\* or of MaxFiles entries.
Catalogs == [Buckets -> {ChantList(0), ChantList(MaxFiles)}]

\* JavaScript truthiness of a string | null value.
Truthy(v) == v # Null /\ v # ""

\* ------------------------------------------------- phase transition policy
\* SessionConfig | null; file references are string | null.
FileRefs == {Null, "", "x.mp3"}

SessionConfig ==
  [mode : SessionMode, enableGong : BOOLEAN, introFile : FileRefs,
   outroFile : FileRefs, meditationMinutes : MeditationDuration,
   instructionType : InstructionType]

\* getNextPhase with `return currentPhase` for a null configuration.
getNextPhaseNullKeeps(currentPhase, config) ==
  IF IsNull(config) THEN currentPhase
  ELSE CASE currentPhase = "gong" ->
              IF config.mode = "guided" THEN "guided_session"
              ELSE IF Truthy(config.introFile) THEN "intro"
              ELSE "meditation"
         [] currentPhase = "intro" -> "meditation"
         [] currentPhase = "meditation" ->
              IF Truthy(config.outroFile) THEN "outro_chanting" ELSE "outro"
         [] currentPhase = "outro_chanting" -> "outro"
         [] currentPhase = "outro" -> "complete"
         [] currentPhase = "guided_session" -> "complete"
         [] OTHER -> "idle"

\* getNextPhase without the guided branch of the gong case.
getNextPhaseGongIgnoresMode(currentPhase, config) ==
  IF IsNull(config) THEN "idle"
  ELSE CASE currentPhase = "gong" ->
              IF Truthy(config.introFile) THEN "intro" ELSE "meditation"
         [] currentPhase = "intro" -> "meditation"
         [] currentPhase = "meditation" ->
              IF Truthy(config.outroFile) THEN "outro_chanting" ELSE "outro"
         [] currentPhase = "outro_chanting" -> "outro"
         [] currentPhase = "outro" -> "complete"
         [] currentPhase = "guided_session" -> "complete"
         [] OTHER -> "idle"

\* getNextPhase with the closing gong of the earlier App: outro -> gong
\* when the gong is enabled.
getNextPhaseClosingGong(currentPhase, config) ==
  IF IsNull(config) THEN "idle"
  ELSE CASE currentPhase = "gong" ->
              IF config.mode = "guided" THEN "guided_session"
              ELSE IF Truthy(config.introFile) THEN "intro"
              ELSE "meditation"
         [] currentPhase = "intro" -> "meditation"
         [] currentPhase = "meditation" ->
              IF Truthy(config.outroFile) THEN "outro_chanting" ELSE "outro"
         [] currentPhase = "outro_chanting" -> "outro"
         [] currentPhase = "outro" ->
              IF config.enableGong THEN "gong" ELSE "complete"
         [] currentPhase = "guided_session" -> "complete"
         [] OTHER -> "idle"

\* getNextPhase whose meditation case never looks at the outro file.
getNextPhaseNoOutroChant(currentPhase, config) ==
  IF IsNull(config) THEN "idle"
  ELSE CASE currentPhase = "gong" ->
              IF config.mode = "guided" THEN "guided_session"
              ELSE IF Truthy(config.introFile) THEN "intro"
              ELSE "meditation"
         [] currentPhase = "intro" -> "meditation"
         [] currentPhase = "meditation" -> "outro"
         [] currentPhase = "outro_chanting" -> "outro"
         [] currentPhase = "outro" -> "complete"
         [] currentPhase = "guided_session" -> "complete"
         [] OTHER -> "idle"

getNextPhase(currentPhase, config) ==
  IF IsNull(config) THEN "idle"
  ELSE CASE currentPhase = "gong" ->
              IF config.mode = "guided" THEN "guided_session"
              ELSE IF Truthy(config.introFile) THEN "intro"
              ELSE "meditation"
         [] currentPhase = "intro" -> "meditation"
         [] currentPhase = "meditation" ->
              IF Truthy(config.outroFile) THEN "outro_chanting" ELSE "outro"
         [] currentPhase = "outro_chanting" -> "outro"
         [] currentPhase = "outro" -> "complete"
         [] currentPhase = "guided_session" -> "complete"
         [] OTHER -> "idle"

\* getAudioForPhase with the two instruction files exchanged.
getAudioForPhaseSwapsInstructions(phase, config) ==
  IF IsNull(config) THEN Null
  ELSE CASE phase = "gong" -> "/audio/gong.mp3"
         [] phase = "intro" ->
              IF Truthy(config.introFile)
              THEN "/audio/chanting/" \o config.introFile ELSE Null
         [] phase = "outro_chanting" ->
              IF Truthy(config.outroFile)
              THEN "/audio/chanting/" \o config.outroFile ELSE Null
         [] phase = "outro" -> "/audio/outro.webm"
         [] phase = "guided_session" ->
              IF config.instructionType = "short"
              THEN "/audio/guided/long.mp3" ELSE "/audio/guided/short.mp3"
         [] OTHER -> Null

\* getAudioForPhase that plays the intro chant in outro_chanting too.
getAudioForPhaseOutroPlaysIntro(phase, config) ==
  IF IsNull(config) THEN Null
  ELSE CASE phase = "gong" -> "/audio/gong.mp3"
         [] phase = "intro" ->
              IF Truthy(config.introFile)
              THEN "/audio/chanting/" \o config.introFile ELSE Null
         [] phase = "outro_chanting" ->
              IF Truthy(config.introFile)
              THEN "/audio/chanting/" \o config.introFile ELSE Null
         [] phase = "outro" -> "/audio/outro.webm"
         [] phase = "guided_session" ->
              IF config.instructionType = "short"
              THEN "/audio/guided/short.mp3" ELSE "/audio/guided/long.mp3"
         [] OTHER -> Null

\* getAudioForPhase: the resource played in a phase, null for none.
getAudioForPhase(phase, config) ==
  IF IsNull(config) THEN Null
  ELSE CASE phase = "gong" -> "/audio/gong.mp3"
         [] phase = "intro" ->
              IF Truthy(config.introFile)
              THEN "/audio/chanting/" \o config.introFile ELSE Null
         [] phase = "outro_chanting" ->
              IF Truthy(config.outroFile)
              THEN "/audio/chanting/" \o config.outroFile ELSE Null
         [] phase = "outro" -> "/audio/outro.webm"
         [] phase = "guided_session" ->
              IF config.instructionType = "short"
              THEN "/audio/guided/short.mp3" ELSE "/audio/guided/long.mp3"
         [] OTHER -> Null

\* getFirstPhase with the intro test ahead of the mode test.
getFirstPhaseIntroBeforeMode(config) ==
  IF config.enableGong THEN "gong"
  ELSE IF Truthy(config.introFile) THEN "intro"
  ELSE IF config.mode = "guided" THEN "guided_session"
  ELSE "meditation"

\* getFirstPhase that starts a custom session with the intro, file or not.
getFirstPhaseIntroUnchecked(config) ==
  IF config.enableGong THEN "gong"
  ELSE IF config.mode = "guided" THEN "guided_session"
  ELSE "intro"

getFirstPhase(config) ==
  IF config.enableGong THEN "gong"
  ELSE IF config.mode = "guided" THEN "guided_session"
  ELSE IF Truthy(config.introFile) THEN "intro"
  ELSE "meditation"

\* ------------------------------------------------------------ chanting
\* getRandomChanting: r stands for the value Math.random() draws.
getRandomChanting(md, duration, r) ==
  IF IsNull(md) \/ duration = "none" THEN Null
  ELSE IF Len(md[duration]) = 0 THEN Null
  ELSE md[duration][((r - 1) % Len(md[duration])) + 1]

\* The draws of Math.random() that give different picks; one draw stands
\* for all where the handler ends in a phase that picks no chant.
RandomDraws(target) ==
  IF target \in {"intro", "outro_chanting"} /\ MaxFiles > 0
  THEN 1..MaxFiles
  ELSE {1}

hasChanting(md, dur) ==
  IF dur = "none" THEN TRUE
  ELSE IF IsNull(md) THEN FALSE
  ELSE Len(md[dur]) > 0

\* ------------------------------------------------------------ App state
VARIABLES
  metadata,            \* useState<Metadata | null>
  fetchState,          \* the fetch of /audio/metadata.json: pending, done, failed
  enableGong,          \* settings
  introDuration,
  meditationDuration,
  outroDuration,
  phase,               \* session state
  timeRemaining,
  currentChanting,
  audioProgress,
  audioRef,            \* the HTMLAudioElement of audioRef.current, or NoAudio
  timerRef,            \* timerRef.current: null, a live interval, a cleared one
  phaseRef,
  tickers,             \* number of intervals the browser still runs
  rejections,          \* play() promises rejected by pause(), not yet delivered
  lastOp,              \* history: the handler that ran last
  trigStale            \* history: lastOp was a completion of an occurrence
                       \*          of a phase that had already been left

VARIABLES
  pConfig,             \* PolicySpec: the configuration under test
  pPhase,              \* PolicySpec: the phase under test
  pNext,               \* PolicySpec: getNextPhase(pPhase, pConfig), once applied
  pAudio,              \* PolicySpec: getAudioForPhase(pPhase, pConfig), once applied
  walk,                \* PolicySpec: getFirstPhase, getNextPhase, ... so far
  walkAudio            \* PolicySpec: getAudioForPhase of each phase of walk

appVars ==
  <<metadata, fetchState, enableGong, introDuration, meditationDuration,
    outroDuration, phase, timeRemaining, currentChanting, audioProgress,
    audioRef, timerRef, phaseRef, tickers, rejections, lastOp, trigStale>>

policyVars == <<pConfig, pPhase, pNext, pAudio, walk, walkAudio>>

\* --------------------------------------------------- state of the hooks
VARIABLES
  tmRemaining,         \* useMeditationTimer: timeRemaining
  tmTimerRef,          \* timerRef.current: null or the interval of a run
  tmIsRunning,         \* isRunningRef.current
  tmLive,              \* the intervals the browser still fires, by run
  tmRuns,              \* calls of start so far; run r is the r-th call
  tmDeferred,          \* setTimeout(onComplete, 0) not yet fired, by run
  tmCalls,             \* invocations of onComplete, by run
  tmTicked,            \* runs whose interval has fired
  tmMinutes,           \* the argument of start, by run
  tmTicks,             \* firings of the interval of each run
  tmStopped,           \* runs that were the latest run when stop was called
  tmFresh,             \* runs stopped before their first tick
  tmOp                 \* the last step of the timer: <<name, run>>

timerVars ==
  <<tmRemaining, tmTimerRef, tmIsRunning, tmLive, tmRuns, tmDeferred,
    tmCalls, tmTicked, tmMinutes, tmTicks, tmStopped, tmFresh, tmOp>>

VARIABLES
  plAudioRef,          \* useAudioPlayer: audioRef.current, an element or none
  plFadeRef,           \* fadeIntervalRef.current: the element it fades, or none
  plFades,             \* live fade intervals: element, currentStep, steps
  plElems,             \* the Audio elements created so far, by play call
  plProgress,          \* progress
  plPromise,           \* the promise each play call returned, and its settlements
  plCause,             \* the events that called resolve or reject, by promise
  plRejecting,         \* elements whose play() promise has rejected, undelivered
  plPlays,             \* calls of play so far; element e is of the e-th call
  plOp                 \* the last step of the player: <<name, element>>

playerVars ==
  <<plAudioRef, plFadeRef, plFades, plElems, plProgress, plPromise,
    plCause, plRejecting, plPlays, plOp>>

VARIABLES
  chCatalog,           \* selectChantingWithRetry: metadata
  chBucket,            \* duration
  chRetries,           \* maxRetries
  chResult             \* the value returned, "unset" before the call

chantVars == <<chCatalog, chBucket, chRetries, chResult>>

VARIABLES
  wkPhase,             \* useWakeLock: the phase it was last rendered with
  wkPhaseRef,          \* phaseRef.current
  wkLockRef,           \* wakeLockRef.current: null or a sentinel
  wkSentinels,         \* the sentinels granted so far: active or released
  wkPending,           \* navigator.wakeLock.request calls not yet settled
  wkRequests,          \* navigator.wakeLock.request calls so far
  wkVisible,           \* document.visibilityState === 'visible'
  wkSupported,         \* 'wakeLock' in navigator
  wkReleased,          \* release has run and request has not been called since
  wkOp                 \* the last step of the hook or its environment

wakeVars ==
  <<wkPhase, wkPhaseRef, wkLockRef, wkSentinels, wkPending, wkRequests,
    wkVisible, wkSupported, wkReleased, wkOp>>

hookVars == <<timerVars, playerVars, chantVars, wakeVars>>

vars == <<appVars, policyVars, hookVars>>

NoAudio == [st |-> "none"]

\* The element h once its playAudio promise is settled (it ended or failed):
\* audioRef still refers to it, nothing awaits it any more.
Settled(h, how) == [st |-> how, orig |-> h.orig]

Unsettled == {"loading", "playing"}

ZeroProgress == [current |-> 0, duration |-> 0]

AudioPhases == {"gong", "intro", "outro_chanting", "outro"}

isSessionActive(p) == p # "idle" /\ p # "complete"

\* The part of the state the handlers write, as one record.
St ==
  [phase |-> phase, timeRemaining |-> timeRemaining,
   currentChanting |-> currentChanting, audioProgress |-> audioProgress,
   audioRef |-> audioRef, timerRef |-> timerRef, phaseRef |-> phaseRef,
   tickers |-> tickers, rejections |-> rejections]

Apply(s) ==
  /\ phase' = s.phase
  /\ timeRemaining' = s.timeRemaining
  /\ currentChanting' = s.currentChanting
  /\ audioProgress' = s.audioProgress
  /\ audioRef' = s.audioRef
  /\ timerRef' = s.timerRef
  /\ phaseRef' = s.phaseRef
  /\ tickers' = s.tickers
  /\ rejections' = s.rejections

settingsVars ==
  <<metadata, fetchState, enableGong, introDuration, meditationDuration,
    outroDuration>>

\* ------------------------------------------------- audio and timer helpers
\* cleanup() without its audio half: the interval is cleared, the element
\* of audioRef keeps playing.
CleanupKeepsAudio(s) ==
  LET t == IF s.timerRef # Null
           THEN [s EXCEPT !.tickers = IF s.timerRef = "live" THEN @ - 1 ELSE @,
                          !.timerRef = Null]
           ELSE s
  IN [t EXCEPT !.audioProgress = ZeroProgress]

\* cleanup(): clears the interval of timerRef, pauses and detaches the audio
\* of audioRef.  pause() on an element whose play() promise is still pending
\* rejects that promise (AbortError); the rejection is delivered by a later
\* task to the handlePhaseTransition call that awaits it.
Cleanup(s) ==
  LET t == IF s.timerRef # Null
           THEN [s EXCEPT !.tickers = IF s.timerRef = "live" THEN @ - 1 ELSE @,
                          !.timerRef = Null]
           ELSE s
      a == IF t.audioRef.st # "none"
           THEN [t EXCEPT
                   !.rejections =
                     IF t.audioRef.st = "loading"
                     THEN @ \cup {[orig |-> t.audioRef.orig,
                                   intro |-> t.audioRef.intro,
                                   minutes |-> t.audioRef.minutes]}
                     ELSE @,
                   !.audioRef = NoAudio]
           ELSE t
  IN [a EXCEPT !.audioProgress = ZeroProgress]

\* playAudio(src) called by the handlePhaseTransition of phase orig, whose
\* closure holds introDuration = intro and meditationDuration = minutes.
playAudio(s, orig, intro, minutes) ==
  [Cleanup(s) EXCEPT
     !.audioRef = [st |-> "loading", orig |-> orig, intro |-> intro,
                   minutes |-> minutes, stale |-> FALSE]]

startMeditationTimer(s, minutes) ==
  [s EXCEPT !.timeRemaining = minutes * SecondsPerMinute,
            !.timerRef = "live",
            !.tickers = @ + 1]

\* ------------------------------------------------------ where a phase ends
\* startSession: the first phase.
StartTarget(gong, intro) ==
  IF gong THEN "gong"
  ELSE IF intro # "none" THEN "intro"
  ELSE "meditation"

\* The closing gong of the earlier App: the gong follows the closing.
ResolvedTargetClosingGong(p, intro) ==
  CASE p = "gong" -> IF intro # "none" THEN "intro" ELSE "meditation"
    [] p = "intro" -> "meditation"
    [] p = "outro_chanting" -> "outro"
    [] p = "outro" -> "gong"
    [] OTHER -> p

\* handlePhaseTransition, after `await playAudio` resolved, for phase p.
ResolvedTarget(p, intro) ==
  CASE p = "gong" -> IF intro # "none" THEN "intro" ELSE "meditation"
    [] p = "intro" -> "meditation"
    [] p = "outro_chanting" -> "outro"
    [] p = "outro" -> "complete"
    [] OTHER -> p

\* The catch of the earlier App: a failed intro resets the session.
FailureTargetIntroResets(p, intro) ==
  CASE p = "gong" -> IF intro # "none" THEN "intro" ELSE "meditation"
    [] p = "intro" -> "idle"
    [] p = "outro_chanting" -> "outro"
    [] p = "outro" -> "complete"
    [] OTHER -> p

\* handlePhaseTransition, catch block: dispatches on phaseRef.current = p.
FailureTarget(p, intro) ==
  CASE p = "gong" -> IF intro # "none" THEN "intro" ELSE "meditation"
    [] p = "intro" -> "meditation"
    [] p = "outro_chanting" -> "outro"
    [] p = "outro" -> "complete"
    [] OTHER -> p

\* The timer completion effect (phase = meditation, timeRemaining = 0).
TimerTarget(outro) ==
  IF outro # "none" THEN "outro_chanting" ELSE "outro"

\* A skip of the meditation that goes straight to the outro, where the
\* countdown of the earlier App went, whatever the outro chanting setting.
SkipTargetPastChant(p, intro, outro) ==
  CASE p = "gong" -> IF intro # "none" THEN "intro" ELSE "meditation"
    [] p = "intro" -> "meditation"
    [] p = "meditation" -> "outro"
    [] p = "outro_chanting" -> "outro"
    [] p = "outro" -> "complete"
    [] OTHER -> p

\* skipGong, skipIntro, skipMeditation, skipOutroChanting, skipOutro.
SkipTarget(p, intro, outro) ==
  CASE p = "gong" -> IF intro # "none" THEN "intro" ELSE "meditation"
    [] p = "intro" -> "meditation"
    [] p = "meditation" -> IF outro # "none" THEN "outro_chanting" ELSE "outro"
    [] p = "outro_chanting" -> "outro"
    [] p = "outro" -> "complete"
    [] OTHER -> p

\* The setState calls that go with setPhase(target) in every branch: the
\* chant is drawn on the way to intro and outro_chanting, the countdown is
\* started on the way to meditation.
Enter(s, target, intro, outro, minutes, r) ==
  IF target = s.phase THEN s
  ELSE CASE target = "intro" ->
              [s EXCEPT !.currentChanting = getRandomChanting(metadata, intro, r),
                        !.phase = "intro"]
         [] target = "outro_chanting" ->
              [s EXCEPT !.currentChanting = getRandomChanting(metadata, outro, r),
                        !.phase = "outro_chanting"]
         [] target = "meditation" ->
              startMeditationTimer([s EXCEPT !.phase = "meditation"], minutes)
         [] OTHER -> [s EXCEPT !.phase = target]

\* ------------------------------------------------------ render and effects
\* The "Handle phase transitions" effect of a render in phase s.phase.
TransitionEffect(s) ==
  IF \/ s.phase = "gong"
     \/ s.phase = "outro"
     \/ s.phase \in {"intro", "outro_chanting"} /\ Truthy(s.currentChanting)
  THEN playAudio(s, s.phase, introDuration, meditationDuration)
  ELSE s

\* History only: an audio element that outlives the phase it was started in.
MarkLeft(old, s) ==
  IF s.phase # old.phase /\ s.audioRef.st \in Unsettled
  THEN [s EXCEPT !.audioRef.stale = TRUE]
  ELSE s

\* One render and the effects it runs: phaseRef.current = phase, then the
\* phase transition effect when phase or currentChanting changed.
Render(old, s) ==
  LET m == MarkLeft(old, s)
      e == [m EXCEPT !.phaseRef = m.phase]
  IN IF old.phase # e.phase \/ old.currentChanting # e.currentChanting
     THEN TransitionEffect(e)
     ELSE e

\* "Watch for timer completion": runs when phase or timeRemaining changed.
TimerEffectFires(old, s) ==
  /\ s.phase = "meditation"
  /\ s.timeRemaining = 0
  /\ (old.phase # s.phase \/ old.timeRemaining # s.timeRemaining)

\* The renders that follow a handler which left the state at s.
Commit(old, s, r) ==
  LET a == Render(old, s)
  IN IF TimerEffectFires(old, s)
     THEN Render(a, Enter(a, TimerTarget(outroDuration), introDuration,
                          outroDuration, meditationDuration, r))
     ELSE a

\* handlePhaseTransition resumes after playAudio of element h resolved.
OnResolved(s, h, r) ==
  IF s.phaseRef = h.orig
  THEN Enter(s, ResolvedTarget(h.orig, h.intro), h.intro, outroDuration,
             h.minutes, r)
  ELSE s

\* handlePhaseTransition resumes in its catch block.
OnRejected(s, h, r) ==
  Enter(s, FailureTarget(s.phaseRef, h.intro), h.intro, outroDuration,
        h.minutes, r)

\* -------------------------------------------------------------------- Init
AppInit ==
  /\ metadata = NullObj
  /\ fetchState = "pending"
  /\ enableGong = FALSE
  /\ introDuration = "5min"
  /\ meditationDuration = 1
  /\ outroDuration = "5min"
  /\ phase = "idle"
  /\ timeRemaining = 0
  /\ currentChanting = Null
  /\ audioProgress = ZeroProgress
  /\ audioRef = NoAudio
  /\ timerRef = Null
  /\ phaseRef = "idle"
  /\ tickers = 0
  /\ rejections = {}
  /\ lastOp = "init"
  /\ trigStale = FALSE

PolicyIdle ==
  /\ pConfig = NullObj
  /\ pPhase = "idle"
  /\ pNext = Null
  /\ pAudio = "unset"
  /\ walk = <<>>
  /\ walkAudio = <<>>

\* timerRef.current = null; interval ids are positive.
NoTimer == 0

\* useMeditationTimer after its first render.
TimerIdle ==
  /\ tmRemaining = 0
  /\ tmTimerRef = NoTimer
  /\ tmIsRunning = FALSE
  /\ tmLive = {}
  /\ tmRuns = 0
  /\ tmDeferred = <<>>
  /\ tmCalls = [r \in {} |-> 0]
  /\ tmTicked = {}
  /\ tmMinutes = <<>>
  /\ tmTicks = <<>>
  /\ tmStopped = {}
  /\ tmFresh = {}
  /\ tmOp = <<"init", 0>>

\* audioRef.current = null, fadeIntervalRef.current = null
NoElem == 0

\* useAudioPlayer after its first render.
PlayerIdle ==
  /\ plAudioRef = NoElem
  /\ plFadeRef = NoElem
  /\ plFades = {}
  /\ plElems = <<>>
  /\ plProgress = ZeroProgress
  /\ plPromise = <<>>
  /\ plCause = <<>>
  /\ plRejecting = {}
  /\ plPlays = 0
  /\ plOp = <<"init", 0>>

\* selectChantingWithRetry not called.
ChantIdle ==
  /\ chCatalog = NullObj
  /\ chBucket = "none"
  /\ chRetries = 1
  /\ chResult = "unset"

\* wakeLockRef.current = null; sentinels are numbered from 1.
NoLock == 0

\* useWakeLock mounted in idle on a visible page that has the API.
WakeIdle ==
  /\ wkPhase = "idle"
  /\ wkPhaseRef = "idle"
  /\ wkLockRef = NoLock
  /\ wkSentinels = <<>>
  /\ wkPending = 0
  /\ wkRequests = 0
  /\ wkVisible = TRUE
  /\ wkSupported = TRUE
  /\ wkReleased = FALSE
  /\ wkOp = "init"

HooksIdle == TimerIdle /\ PlayerIdle /\ ChantIdle /\ WakeIdle

Init == AppInit /\ PolicyIdle /\ HooksIdle

\* ----------------------------------------------------------------- actions
\* A click is handled after the rejections that an earlier pause() queued:
\* the browser queued their task before the click happened.
Quiescent == rejections = {}

\* fetch('/audio/metadata.json') resolves with a catalog.
MetadataLoaded ==
  /\ fetchState = "pending"
  /\ \E cat \in Catalogs : metadata' = cat
  /\ fetchState' = "done"
  /\ lastOp' = "load"
  /\ trigStale' = FALSE
  /\ UNCHANGED <<enableGong, introDuration, meditationDuration, outroDuration,
                 phase, timeRemaining, currentChanting, audioProgress,
                 audioRef, timerRef, phaseRef, tickers, rejections>>
  /\ UNCHANGED policyVars
  /\ UNCHANGED hookVars

\* The fetch fails: logged, metadata stays null.
MetadataFailed ==
  /\ fetchState = "pending"
  /\ fetchState' = "failed"
  /\ lastOp' = "load"
  /\ trigStale' = FALSE
  /\ UNCHANGED <<metadata, enableGong, introDuration, meditationDuration,
                 outroDuration, phase, timeRemaining, currentChanting,
                 audioProgress, audioRef, timerRef, phaseRef, tickers,
                 rejections>>
  /\ UNCHANGED policyVars
  /\ UNCHANGED hookVars

\* The setup form is rendered in phase idle only.
SetEnableGong ==
  /\ phase = "idle"
  /\ Quiescent
  /\ enableGong' = ~enableGong
  /\ lastOp' = "set"
  /\ trigStale' = FALSE
  /\ UNCHANGED <<metadata, fetchState, introDuration, meditationDuration,
                 outroDuration, phase, timeRemaining, currentChanting,
                 audioProgress, audioRef, timerRef, phaseRef, tickers,
                 rejections>>
  /\ UNCHANGED policyVars
  /\ UNCHANGED hookVars

\* A bucket's button is disabled while the catalog has no entry for it.
SetIntroDuration ==
  /\ phase = "idle"
  /\ Quiescent
  /\ \E d \in ChantingDuration :
       /\ hasChanting(metadata, d)
       /\ introDuration' = d
  /\ lastOp' = "set"
  /\ trigStale' = FALSE
  /\ UNCHANGED <<metadata, fetchState, enableGong, meditationDuration,
                 outroDuration, phase, timeRemaining, currentChanting,
                 audioProgress, audioRef, timerRef, phaseRef, tickers,
                 rejections>>
  /\ UNCHANGED policyVars
  /\ UNCHANGED hookVars

SetOutroDuration ==
  /\ phase = "idle"
  /\ Quiescent
  /\ \E d \in ChantingDuration :
       /\ hasChanting(metadata, d)
       /\ outroDuration' = d
  /\ lastOp' = "set"
  /\ trigStale' = FALSE
  /\ UNCHANGED <<metadata, fetchState, enableGong, introDuration,
                 meditationDuration, phase, timeRemaining, currentChanting,
                 audioProgress, audioRef, timerRef, phaseRef, tickers,
                 rejections>>
  /\ UNCHANGED policyVars
  /\ UNCHANGED hookVars

SetMeditationDuration ==
  /\ phase = "idle"
  /\ Quiescent
  /\ \E m \in MeditationDuration : meditationDuration' = m
  /\ lastOp' = "set"
  /\ trigStale' = FALSE
  /\ UNCHANGED <<metadata, fetchState, enableGong, introDuration,
                 outroDuration, phase, timeRemaining, currentChanting,
                 audioProgress, audioRef, timerRef, phaseRef, tickers,
                 rejections>>
  /\ UNCHANGED policyVars
  /\ UNCHANGED hookVars

\* A start that finds no catalog goes through.
StartEnabledWithoutCatalog(md) == TRUE

\* `if (!metadata) return` of startSession, `disabled={!metadata}` of the
\* start button.
StartEnabled(md) == ~IsNull(md)

\* startSession: the start button is rendered in idle, disabled without
\* metadata.
StartSession ==
  /\ phase = "idle"
  /\ Quiescent
  /\ StartEnabled(metadata)
  /\ \E r \in RandomDraws(StartTarget(enableGong, introDuration)) :
       Apply(Commit(St,
                    Enter(St, StartTarget(enableGong, introDuration),
                          introDuration, outroDuration, meditationDuration, r),
                    r))
  /\ lastOp' = "start"
  /\ trigStale' = FALSE
  /\ UNCHANGED settingsVars
  /\ UNCHANGED policyVars
  /\ UNCHANGED hookVars

\* stopSession: the stop button is rendered while the session is active.
StopSession ==
  /\ isSessionActive(phase)
  /\ Quiescent
  /\ Apply(Commit(St,
                  [Cleanup(St) EXCEPT !.phase = "idle",
                                      !.timeRemaining = 0,
                                      !.currentChanting = Null],
                  1))
  /\ lastOp' = "stop"
  /\ trigStale' = FALSE
  /\ UNCHANGED settingsVars
  /\ UNCHANGED policyVars
  /\ UNCHANGED hookVars

\* The phases whose screen renders a skip button.
SkipPhases == {"gong", "intro", "meditation", "outro_chanting", "outro"}

\* The skip button of the current phase.
Skip ==
  /\ phase \in SkipPhases
  /\ Quiescent
  /\ \E r \in RandomDraws(SkipTarget(phase, introDuration, outroDuration)) :
       Apply(Commit(St,
                    Enter(Cleanup(St),
                          SkipTarget(phase, introDuration, outroDuration),
                          introDuration, outroDuration, meditationDuration, r),
                    r))
  /\ lastOp' = "skip"
  /\ trigStale' = FALSE
  /\ UNCHANGED settingsVars
  /\ UNCHANGED policyVars
  /\ UNCHANGED hookVars

\* "New Session" on the completion screen.
NewSession ==
  /\ phase = "complete"
  /\ Quiescent
  /\ Apply(Commit(St, [St EXCEPT !.phase = "idle"], 1))
  /\ lastOp' = "new"
  /\ trigStale' = FALSE
  /\ UNCHANGED settingsVars
  /\ UNCHANGED policyVars
  /\ UNCHANGED hookVars

\* The element starts to play: its play() promise resolves.
AudioPlaying ==
  /\ audioRef.st = "loading"
  /\ audioRef' = [audioRef EXCEPT !.st = "playing"]
  /\ lastOp' = "audio"
  /\ trigStale' = FALSE
  /\ UNCHANGED <<phase, timeRemaining, currentChanting, audioProgress,
                 timerRef, phaseRef, tickers, rejections>>
  /\ UNCHANGED settingsVars
  /\ UNCHANGED policyVars
  /\ UNCHANGED hookVars

\* audio.onloadedmetadata
LoadedMetadata ==
  /\ audioRef.st \in Unsettled
  /\ audioProgress.duration = 0
  /\ audioProgress' = [audioProgress EXCEPT !.duration = AudioSeconds]
  /\ lastOp' = "audio"
  /\ trigStale' = FALSE
  /\ UNCHANGED <<phase, timeRemaining, currentChanting, audioRef,
                 timerRef, phaseRef, tickers, rejections>>
  /\ UNCHANGED settingsVars
  /\ UNCHANGED policyVars
  /\ UNCHANGED hookVars

\* audio.ontimeupdate
TimeUpdate ==
  /\ audioRef.st = "playing"
  /\ \E t \in 1..AudioSeconds :
       /\ t > audioProgress.current
       /\ audioProgress' = [current |-> t, duration |-> AudioSeconds]
  /\ lastOp' = "audio"
  /\ trigStale' = FALSE
  /\ UNCHANGED <<phase, timeRemaining, currentChanting, audioRef,
                 timerRef, phaseRef, tickers, rejections>>
  /\ UNCHANGED settingsVars
  /\ UNCHANGED policyVars
  /\ UNCHANGED hookVars

\* audio.onended: progress reset, the playAudio promise resolves and
\* handlePhaseTransition resumes in the same task.
AudioEnded ==
  /\ audioRef.st = "playing"
  /\ \E r \in RandomDraws(ResolvedTarget(audioRef.orig, audioRef.intro)) :
       Apply(Commit(St,
                    OnResolved([St EXCEPT !.audioProgress = ZeroProgress,
                                          !.audioRef = Settled(@, "ended")],
                               audioRef, r),
                    r))
  /\ lastOp' = "ended"
  /\ trigStale' = audioRef.stale
  /\ UNCHANGED settingsVars
  /\ UNCHANGED policyVars
  /\ UNCHANGED hookVars

\* audio.onerror, or play() rejecting, on the element of audioRef.
AudioError ==
  /\ audioRef.st \in Unsettled
  /\ \E r \in RandomDraws(FailureTarget(phaseRef, audioRef.intro)) :
       Apply(Commit(St,
                    OnRejected([St EXCEPT !.audioRef = Settled(@, "failed")],
                               audioRef, r),
                    r))
  /\ lastOp' = "failed"
  /\ trigStale' = audioRef.stale
  /\ UNCHANGED settingsVars
  /\ UNCHANGED policyVars
  /\ UNCHANGED hookVars

\* The rejection of the play() promise of an element that cleanup() paused
\* reaches the handlePhaseTransition call that awaited it.
PlayRejected ==
  /\ \E h \in rejections : \E r \in RandomDraws(FailureTarget(phaseRef, h.intro)) :
       Apply(Commit(St,
                    OnRejected([St EXCEPT !.rejections = @ \ {h}], h, r),
                    r))
  /\ lastOp' = "rejected"
  /\ trigStale' = TRUE
  /\ UNCHANGED settingsVars
  /\ UNCHANGED policyVars
  /\ UNCHANGED hookVars

\* One firing of the interval callback of startMeditationTimer.
Ticked(s) ==
  IF s.timeRemaining <= 1
  THEN [s EXCEPT !.timeRemaining = 0,
                 !.tickers = IF s.timerRef = "live" THEN @ - 1 ELSE @,
                 !.timerRef = IF s.timerRef = "live" THEN "cleared" ELSE @]
  ELSE [s EXCEPT !.timeRemaining = @ - 1]

TimerTick ==
  /\ tickers > 0
  /\ \E r \in RandomDraws(TimerTarget(outroDuration)) :
       Apply(Commit(St, Ticked(St), r))
  /\ lastOp' = IF TimerEffectFires(St, Ticked(St)) THEN "timerDone" ELSE "tick"
  /\ trigStale' = FALSE
  /\ UNCHANGED settingsVars
  /\ UNCHANGED policyVars
  /\ UNCHANGED hookVars

AppNext ==
  \/ MetadataLoaded
  \/ MetadataFailed
  \/ SetEnableGong
  \/ SetIntroDuration
  \/ SetOutroDuration
  \/ SetMeditationDuration
  \/ StartSession
  \/ StopSession
  \/ Skip
  \/ NewSession
  \/ AudioPlaying
  \/ LoadedMetadata
  \/ TimeUpdate
  \/ AudioEnded
  \/ AudioError
  \/ PlayRejected
  \/ TimerTick

Next == AppNext

Spec == Init /\ [][Next]_vars

\* ------------------------------------- the session without skip and stop
\* The session left to itself: the user sets up and starts, then only the
\* audio elements and the interval act.
AutoNext ==
  \/ MetadataLoaded
  \/ MetadataFailed
  \/ SetEnableGong
  \/ SetIntroDuration
  \/ SetOutroDuration
  \/ SetMeditationDuration
  \/ StartSession
  \/ NewSession
  \/ AudioPlaying
  \/ LoadedMetadata
  \/ TimeUpdate
  \/ AudioEnded
  \/ AudioError
  \/ TimerTick

\* Every started playback starts to play or fails, then ends or fails; a
\* live interval keeps firing.
AutoFairSpec ==
  /\ Init
  /\ [][AutoNext]_vars
  /\ WF_vars(AudioPlaying)
  /\ WF_vars(AudioEnded \/ AudioError)
  /\ WF_vars(TimerTick)

\* ------------------------------------------- the policy functions alone
WalkCap == Cardinality(SessionPhase) + 1

Last(w) == w[Len(w)]

PolicyInit ==
  /\ AppInit
  /\ HooksIdle
  /\ pConfig \in SessionConfig \cup {NullObj}
  /\ pPhase \in SessionPhase
  /\ pNext = Null
  /\ pAudio = "unset"
  /\ walk = <<>>
  /\ walkAudio = <<>>

\* getNextPhase(pPhase, pConfig)
ApplyNext ==
  /\ pNext = Null
  /\ pNext' = getNextPhase(pPhase, pConfig)
  /\ UNCHANGED <<pConfig, pPhase, pAudio, walk, walkAudio>>
  /\ UNCHANGED appVars
  /\ UNCHANGED hookVars

\* getAudioForPhase(pPhase, pConfig)
ApplyAudio ==
  /\ pAudio = "unset"
  /\ pAudio' = getAudioForPhase(pPhase, pConfig)
  /\ UNCHANGED <<pConfig, pPhase, pNext, walk, walkAudio>>
  /\ UNCHANGED appVars
  /\ UNCHANGED hookVars

\* getFirstPhase(pConfig)
WalkStart ==
  /\ walk = <<>>
  /\ ~IsNull(pConfig)
  /\ walk' = <<getFirstPhase(pConfig)>>
  /\ walkAudio' = <<getAudioForPhase(getFirstPhase(pConfig), pConfig)>>
  /\ UNCHANGED <<pConfig, pPhase, pNext, pAudio>>
  /\ UNCHANGED appVars
  /\ UNCHANGED hookVars

\* getNextPhase applied to the phase the walk has reached
WalkStep ==
  /\ walk # <<>>
  /\ Last(walk) # "complete"
  /\ Len(walk) < WalkCap
  /\ walk' = Append(walk, getNextPhase(Last(walk), pConfig))
  /\ walkAudio' = Append(walkAudio,
                         getAudioForPhase(getNextPhase(Last(walk), pConfig),
                                          pConfig))
  /\ UNCHANGED <<pConfig, pPhase, pNext, pAudio>>
  /\ UNCHANGED appVars
  /\ UNCHANGED hookVars

PolicyNext ==
  \/ ApplyNext
  \/ ApplyAudio
  \/ WalkStart
  \/ WalkStep

PolicySpec == PolicyInit /\ [][PolicyNext]_vars

\* ------------------------------------------------- useMeditationTimer
\* Calls of start, and dispatches of onComplete, the model follows.
MaxRuns == 2

MaxDispatch == 2

\* The state of the hook and of the browser's intervals it created.
TmSt ==
  [remaining |-> tmRemaining, timerRef |-> tmTimerRef,
   isRunning |-> tmIsRunning, live |-> tmLive]

\* if (timerRef.current) { clearInterval(timerRef.current); timerRef.current = null }
ClearTimerRef(s) ==
  IF s.timerRef # NoTimer
  THEN [s EXCEPT !.live = @ \ {s.timerRef}, !.timerRef = NoTimer]
  ELSE s

\* start(minutes): the new interval is stored over whatever timerRef held.
TimerStarted(s, id, minutes) ==
  [s EXCEPT !.remaining = minutes * SecondsPerMinute,
            !.isRunning = TRUE,
            !.timerRef = id,
            !.live = @ \cup {id}]

\* stop() that leaves the interval alone.
TimerStoppedKeepsInterval(s) ==
  [s EXCEPT !.isRunning = FALSE, !.remaining = 0]

\* stop()
TimerStopped(s) ==
  [ClearTimerRef(s) EXCEPT !.isRunning = FALSE, !.remaining = 0]

\* The updater of the interval callback.
TimerTicked(s) ==
  IF s.remaining <= 1
  THEN [ClearTimerRef(s) EXCEPT !.isRunning = FALSE, !.remaining = 0]
  ELSE [s EXCEPT !.remaining = @ - 1]

ApplyTimer(s) ==
  /\ tmRemaining' = s.remaining
  /\ tmTimerRef' = s.timerRef
  /\ tmIsRunning' = s.isRunning
  /\ tmLive' = s.live

RECURSIVE SumCalls(_, _)
SumCalls(f, n) == IF n = 0 THEN 0 ELSE f[n] + SumCalls(f, n - 1)

\* Dispatches of onComplete made or scheduled so far.
Dispatched == Len(tmDeferred) + SumCalls(tmCalls, tmRuns)

TimerStart ==
  /\ tmRuns < MaxRuns
  /\ \E m \in MeditationDuration :
       /\ ApplyTimer(TimerStarted(TmSt, tmRuns + 1, m))
       /\ tmMinutes' = Append(tmMinutes, m)
  /\ tmTicks' = Append(tmTicks, 0)
  /\ tmRuns' = tmRuns + 1
  /\ tmCalls' = [r \in 1..(tmRuns + 1) |-> IF r <= tmRuns THEN tmCalls[r] ELSE 0]
  /\ tmOp' = <<"start", tmRuns + 1>>
  /\ UNCHANGED <<tmDeferred, tmTicked, tmStopped, tmFresh>>
  /\ UNCHANGED <<appVars, policyVars, playerVars, chantVars, wakeVars>>

TimerStop ==
  /\ ApplyTimer(TimerStopped(TmSt))
  /\ tmStopped' = tmStopped \cup (IF tmRuns > 0 THEN {tmRuns} ELSE {})
  /\ tmFresh' = tmFresh \cup
                  (IF tmTimerRef # NoTimer /\ tmTimerRef \notin tmTicked
                   THEN {tmTimerRef} ELSE {})
  /\ tmOp' = <<"stop", 0>>
  /\ UNCHANGED <<tmRuns, tmDeferred, tmCalls, tmTicked, tmMinutes, tmTicks>>
  /\ UNCHANGED <<appVars, policyVars, playerVars, chantVars, wakeVars>>

\* The interval of run id fires; at zero the updater schedules onComplete.
IntervalFires ==
  /\ \E id \in tmLive :
       /\ tmRemaining <= 1 => Dispatched < MaxDispatch
       /\ ApplyTimer(TimerTicked(TmSt))
       /\ tmDeferred' = IF tmRemaining <= 1 THEN Append(tmDeferred, id)
                        ELSE tmDeferred
       /\ tmTicked' = tmTicked \cup {id}
       /\ tmTicks' = [tmTicks EXCEPT ![id] = @ + 1]
       /\ tmOp' = <<IF tmRemaining <= 1 THEN "zero" ELSE "tick", id>>
  /\ UNCHANGED <<tmRuns, tmCalls, tmMinutes, tmStopped, tmFresh>>
  /\ UNCHANGED <<appVars, policyVars, playerVars, chantVars, wakeVars>>

\* A timeout of setTimeout(onComplete, 0) fires.
CompleteFires ==
  /\ tmDeferred # <<>>
  /\ tmCalls' = [tmCalls EXCEPT ![Head(tmDeferred)] = @ + 1]
  /\ tmDeferred' = Tail(tmDeferred)
  /\ tmOp' = <<"complete", Head(tmDeferred)>>
  /\ UNCHANGED <<tmRemaining, tmTimerRef, tmIsRunning, tmLive, tmRuns,
                 tmTicked, tmMinutes, tmTicks, tmStopped, tmFresh>>
  /\ UNCHANGED <<appVars, policyVars, playerVars, chantVars, wakeVars>>

TimerNext ==
  \/ TimerStart
  \/ TimerStop
  \/ IntervalFires
  \/ CompleteFires

TimerSpec == Init /\ [][TimerNext]_vars

\* ----------------------------------------------------- useAudioPlayer
\* Calls of play, and steps of a fade ramp, the model follows.
MaxPlays == 2

MaxFadeSteps == 1

\* The state of the hook and of the elements and intervals it created.
PlSt ==
  [audioRef |-> plAudioRef, fadeRef |-> plFadeRef, fades |-> plFades,
   elems |-> plElems, progress |-> plProgress, rejecting |-> plRejecting]

ApplyPlayer(s) ==
  /\ plAudioRef' = s.audioRef
  /\ plFadeRef' = s.fadeRef
  /\ plFades' = s.fades
  /\ plElems' = s.elems
  /\ plProgress' = s.progress
  /\ plRejecting' = s.rejecting

\* audio.volume as a fraction: 1 is the volume of a new Audio element.
FullVolume == [num |-> 1, den |-> 1]

\* audio.volume = 0, before the first of `steps` fade steps.
Silent(steps) == [num |-> 0, den |-> steps]

\* new Audio(src) of a play call whose fade has `fade` steps
\* (fadeInSeconds * 10; 0 for no fade), and its audio.play().
NewElem(fade) ==
  [st |-> "loading", attached |-> TRUE, playPending |-> TRUE,
   volume |-> IF fade > 0 THEN Silent(fade) ELSE FullVolume,
   fadeIn |-> fade]

\* pause() and the four handler properties set to null.
PausedDetached(e) ==
  [e EXCEPT !.st = IF e.st \in Unsettled THEN "paused" ELSE e.st,
            !.attached = FALSE, !.playPending = FALSE]

\* stop() that leaves the fade interval running.
PlayerStoppedKeepsFade(s) ==
  LET a == IF s.audioRef # NoElem
           THEN [s EXCEPT
                   !.rejecting = IF s.elems[s.audioRef].playPending
                                 THEN @ \cup {s.audioRef} ELSE @,
                   !.elems[s.audioRef] = PausedDetached(@),
                   !.audioRef = NoElem]
           ELSE s
  IN [a EXCEPT !.progress = ZeroProgress]

\* stop(): the fade interval cleared, the element paused and detached (a
\* play() promise still pending rejects: AbortError), progress reset.
PlayerStopped(s) ==
  LET f == IF s.fadeRef # NoElem
           THEN [s EXCEPT !.fades = {x \in @ : x.elem # s.fadeRef},
                          !.fadeRef = NoElem]
           ELSE s
      a == IF f.audioRef # NoElem
           THEN [f EXCEPT
                   !.rejecting = IF f.elems[f.audioRef].playPending
                                 THEN @ \cup {f.audioRef} ELSE @,
                   !.elems[f.audioRef] = PausedDetached(@),
                   !.audioRef = NoElem]
           ELSE f
  IN [a EXCEPT !.progress = ZeroProgress]

\* play() without its call of stop().
PlayerPlayedNoStop(s, fade) ==
  LET id == Len(s.elems) + 1
  IN [s EXCEPT !.audioRef = id,
               !.elems = Append(@, NewElem(fade)),
               !.fades = IF fade > 0
                         THEN @ \cup {[elem |-> id, step |-> 0, steps |-> fade]}
                         ELSE @,
               !.fadeRef = IF fade > 0 THEN id ELSE @]

\* play(src, options): fade is the number of steps of the fade ramp.
PlayerPlayed(s, fade) ==
  LET c == PlayerStopped(s)
      id == Len(s.elems) + 1
  IN [c EXCEPT !.audioRef = id,
               !.elems = Append(@, NewElem(fade)),
               !.fades = IF fade > 0
                         THEN @ \cup {[elem |-> id, step |-> 0, steps |-> fade]}
                         ELSE @,
               !.fadeRef = IF fade > 0 THEN id ELSE @]

PendingPromise == [state |-> "pending", settles |-> 0]

\* A promise that a later resolve or reject settles again.
SettleAgain(pr, how) ==
  [state |-> how, settles |-> pr.settles + 1]

\* resolve() / reject() of the promise play returned.
Settle(pr, how) ==
  IF pr.state = "pending"
  THEN [state |-> how, settles |-> pr.settles + 1]
  ELSE pr

\* The promise of element id is told how, by the event cause.
Tell(id, how, cause) ==
  /\ plPromise' = [plPromise EXCEPT ![id] = Settle(@, how)]
  /\ plCause' = [plCause EXCEPT ![id] = @ \cup {cause}]

restOfPlayer == <<appVars, policyVars, timerVars, chantVars, wakeVars>>

\* play(src, options) with a fade of one of the lengths of fades.
PlayerPlayFrom(fades) ==
  /\ plPlays < MaxPlays
  /\ \E fade \in fades : ApplyPlayer(PlayerPlayed(PlSt, fade))
  /\ plPlays' = plPlays + 1
  /\ plPromise' = Append(plPromise, PendingPromise)
  /\ plCause' = Append(plCause, {})
  /\ plOp' = <<"play", plPlays + 1>>
  /\ UNCHANGED restOfPlayer

PlayerPlay == PlayerPlayFrom(0..MaxFadeSteps)

PlayerStop ==
  /\ ApplyPlayer(PlayerStopped(PlSt))
  /\ plOp' = <<IF plFadeRef # NoElem THEN "stopFade" ELSE "stop", plAudioRef>>
  /\ UNCHANGED <<plPromise, plCause, plPlays>>
  /\ UNCHANGED restOfPlayer

\* The element starts to play: its play() promise resolves.
ElemPlaying ==
  /\ \E id \in DOMAIN plElems :
       /\ plElems[id].st = "loading"
       /\ plElems' = [plElems EXCEPT ![id].st = "playing",
                                     ![id].playPending = FALSE]
       /\ plOp' = <<"playing", id>>
  /\ UNCHANGED <<plAudioRef, plFadeRef, plFades, plProgress, plPromise,
                 plCause, plRejecting, plPlays>>
  /\ UNCHANGED restOfPlayer

\* The browser refuses to play (NotAllowedError): play() rejects, no error
\* event.
ElemBlocked ==
  /\ \E id \in DOMAIN plElems :
       /\ plElems[id].st = "loading"
       /\ plElems' = [plElems EXCEPT ![id].st = "paused",
                                     ![id].playPending = FALSE]
       /\ plRejecting' = plRejecting \cup {id}
       /\ plOp' = <<"blocked", id>>
  /\ UNCHANGED <<plAudioRef, plFadeRef, plFades, plProgress, plPromise,
                 plCause, plPlays>>
  /\ UNCHANGED restOfPlayer

\* audio.onloadedmetadata
ElemLoadedMetadata ==
  /\ \E id \in DOMAIN plElems :
       /\ plElems[id].st \in Unsettled
       /\ plElems[id].attached
       /\ plProgress.duration = 0
       /\ plProgress' = [plProgress EXCEPT !.duration = AudioSeconds]
       /\ plOp' = <<"loadedmetadata", id>>
  /\ UNCHANGED <<plAudioRef, plFadeRef, plFades, plElems, plPromise,
                 plCause, plRejecting, plPlays>>
  /\ UNCHANGED restOfPlayer

\* audio.ontimeupdate
ElemTimeUpdate ==
  /\ \E id \in DOMAIN plElems : \E c \in 1..AudioSeconds :
       /\ plElems[id].st = "playing"
       /\ plElems[id].attached
       /\ c > plProgress.current
       /\ plProgress' = [current |-> c, duration |-> AudioSeconds]
       /\ plOp' = <<"timeupdate", id>>
  /\ UNCHANGED <<plAudioRef, plFadeRef, plFades, plElems, plPromise,
                 plCause, plRejecting, plPlays>>
  /\ UNCHANGED restOfPlayer

\* The element reaches its end: audio.onended.
ElemEnded ==
  /\ \E id \in DOMAIN plElems :
       /\ plElems[id].st = "playing"
       /\ plElems' = [plElems EXCEPT ![id].st = "ended"]
       /\ IF plElems[id].attached
          THEN /\ plProgress' = ZeroProgress
               /\ Tell(id, "resolved", "ended")
          ELSE UNCHANGED <<plProgress, plPromise, plCause>>
       /\ plOp' = <<"ended", id>>
  /\ UNCHANGED <<plAudioRef, plFadeRef, plFades, plRejecting, plPlays>>
  /\ UNCHANGED restOfPlayer

\* The resource fails to load or decode: audio.onerror, and a play()
\* promise still pending rejects as well.
ElemError ==
  /\ \E id \in DOMAIN plElems :
       /\ plElems[id].st \in Unsettled
       /\ plElems' = [plElems EXCEPT ![id].st = "failed",
                                     ![id].playPending = FALSE]
       /\ plRejecting' = IF plElems[id].playPending
                         THEN plRejecting \cup {id} ELSE plRejecting
       /\ IF plElems[id].attached
          THEN Tell(id, "rejected", "error")
          ELSE UNCHANGED <<plPromise, plCause>>
       /\ plOp' = <<"error", id>>
  /\ UNCHANGED <<plAudioRef, plFadeRef, plFades, plProgress, plPlays>>
  /\ UNCHANGED restOfPlayer

\* audio.play().catch(reject): the rejection of play() is delivered.
PlayCatch ==
  /\ \E id \in plRejecting :
       /\ plRejecting' = plRejecting \ {id}
       /\ Tell(id, "rejected", "playRejected")
       /\ plOp' = <<"rejected", id>>
  /\ UNCHANGED <<plAudioRef, plFadeRef, plFades, plElems, plProgress, plPlays>>
  /\ UNCHANGED restOfPlayer

\* The fade stops one step late.
fadeDoneLate(currentStep, steps) == currentStep > steps

\* `currentStep >= steps` of the fade interval.
fadeDone(currentStep, steps) == currentStep >= steps

\* Math.min(1, currentStep * volumeStep) with volumeStep = 1 / steps.
newVolume(currentStep, steps) ==
  IF currentStep >= steps THEN FullVolume
  ELSE [num |-> currentStep, den |-> steps]

\* One firing of a fade interval: currentStep++, the volume of the element
\* of audioRef set, the interval of fadeIntervalRef cleared at the end.
FadeStep ==
  /\ \E f \in plFades :
       /\ f.step <= f.steps
       /\ plElems' = IF plAudioRef # NoElem
                     THEN [plElems EXCEPT ![plAudioRef].volume =
                                            newVolume(f.step + 1, f.steps)]
                     ELSE plElems
       /\ IF fadeDone(f.step + 1, f.steps) /\ plFadeRef # NoElem
          THEN /\ plFades' = {x \in (plFades \ {f}) \cup
                                      {[f EXCEPT !.step = @ + 1]} :
                                x.elem # plFadeRef}
               /\ plFadeRef' = NoElem
          ELSE /\ plFades' = (plFades \ {f}) \cup {[f EXCEPT !.step = @ + 1]}
               /\ plFadeRef' = plFadeRef
       /\ plOp' = <<"fade", f.elem>>
  /\ UNCHANGED <<plAudioRef, plProgress, plPromise, plCause, plRejecting,
                 plPlays>>
  /\ UNCHANGED restOfPlayer

PlayerNext ==
  \/ PlayerPlay
  \/ PlayerStop
  \/ ElemPlaying
  \/ ElemLoadedMetadata
  \/ ElemTimeUpdate
  \/ ElemEnded
  \/ ElemError
  \/ ElemBlocked
  \/ PlayCatch
  \/ FadeStep

PlayerSpec == Init /\ [][PlayerNext]_vars

\* The fade-in on its own: plays with ramps of up to MaxRampSteps steps,
\* the ticks of the ramp, stop, and the element starting and ending.
MaxRampSteps == 3

RampPlay == PlayerPlayFrom(0..MaxRampSteps)

FadeNext ==
  \/ RampPlay
  \/ FadeStep
  \/ PlayerStop
  \/ ElemPlaying
  \/ ElemEnded

FadeSpec == Init /\ [][FadeNext]_vars

\* ------------------------------------------- the two hooks side by side
\* useAudioPlayer and useMeditationTimer mounted in one component: each
\* operation is a function of the state of both hooks.
HkSt == [player |-> PlSt, timer |-> TmSt]

ApplyHooks(h) ==
  /\ ApplyPlayer(h.player)
  /\ ApplyTimer(h.timer)

\* controls.play of useAudioPlayer
controlsPlay(h, fade) == [h EXCEPT !.player = PlayerPlayed(@, fade)]

\* A stop that clears the countdown's interval too, as cleanup of App does.
controlsStopAsCleanup(h) ==
  [h EXCEPT !.player = PlayerStopped(@), !.timer = ClearTimerRef(@)]

\* controls.stop of useAudioPlayer
controlsStop(h) == [h EXCEPT !.player = PlayerStopped(@)]

\* controls.start of useMeditationTimer
controlsStart(h, id, minutes) ==
  [h EXCEPT !.timer = TimerStarted(@, id, minutes)]

\* controls.stop of useMeditationTimer
controlsTimerStop(h) == [h EXCEPT !.timer = TimerStopped(@)]

timerHistory ==
  <<tmRuns, tmDeferred, tmCalls, tmTicked, tmMinutes, tmTicks, tmStopped,
    tmFresh, tmOp>>

playerHistory == <<plPromise, plCause, plPlays, plOp>>

restOfHooks == <<appVars, policyVars, chantVars, wakeVars>>

HooksPlay ==
  /\ plPlays < MaxPlays
  /\ \E fade \in 0..MaxFadeSteps : ApplyHooks(controlsPlay(HkSt, fade))
  /\ plPlays' = plPlays + 1
  /\ plPromise' = Append(plPromise, PendingPromise)
  /\ plCause' = Append(plCause, {})
  /\ plOp' = <<"play", plPlays + 1>>
  /\ UNCHANGED timerHistory
  /\ UNCHANGED restOfHooks

HooksStop ==
  /\ ApplyHooks(controlsStop(HkSt))
  /\ plOp' = <<IF plFadeRef # NoElem THEN "stopFade" ELSE "stop", plAudioRef>>
  /\ UNCHANGED <<plPromise, plCause, plPlays>>
  /\ UNCHANGED timerHistory
  /\ UNCHANGED restOfHooks

\* Calls of start the model follows with both hooks mounted.
MaxHookRuns == 1

HooksStart ==
  /\ tmRuns < MaxHookRuns
  /\ \E m \in MeditationDuration :
       /\ ApplyHooks(controlsStart(HkSt, tmRuns + 1, m))
       /\ tmMinutes' = Append(tmMinutes, m)
  /\ tmTicks' = Append(tmTicks, 0)
  /\ tmRuns' = tmRuns + 1
  /\ tmCalls' = [r \in 1..(tmRuns + 1) |-> IF r <= tmRuns THEN tmCalls[r] ELSE 0]
  /\ tmOp' = <<"start", tmRuns + 1>>
  /\ UNCHANGED <<tmDeferred, tmTicked, tmStopped, tmFresh>>
  /\ UNCHANGED playerHistory
  /\ UNCHANGED restOfHooks

HooksTimerStop ==
  /\ ApplyHooks(controlsTimerStop(HkSt))
  /\ tmStopped' = tmStopped \cup (IF tmRuns > 0 THEN {tmRuns} ELSE {})
  /\ tmFresh' = tmFresh \cup
                  (IF tmTimerRef # NoTimer /\ tmTimerRef \notin tmTicked
                   THEN {tmTimerRef} ELSE {})
  /\ tmOp' = <<"stop", 0>>
  /\ UNCHANGED <<tmRuns, tmDeferred, tmCalls, tmTicked, tmMinutes, tmTicks>>
  /\ UNCHANGED playerHistory
  /\ UNCHANGED restOfHooks

\* The four operations, with the events that give the resources a value:
\* the countdown's ticks and the element's metadata (a play with a fade
\* leaves its interval running).
HooksNext ==
  \/ HooksPlay
  \/ HooksStop
  \/ HooksStart
  \/ HooksTimerStop
  \/ IntervalFires
  \/ ElemLoadedMetadata

HooksSpec == Init /\ [][HooksNext]_vars

\* --------------------------------------------- selectChantingWithRetry
MaxRetries == 2

\* The files of a bucket of the catalog, by bucket.
BucketFiles(b) ==
  CASE b = "2min" -> <<"s1.mp3", "s2.mp3", "s3.mp3">>
    [] b = "5min" -> <<"m1.mp3", "m2.mp3", "m3.mp3">>
    [] b = "10min" -> <<"l1.mp3", "l2.mp3", "l3.mp3">>

\* Catalogs whose buckets hold no, some or MaxFiles files of their own.
ChantCatalogs ==
  {md \in [Buckets -> UNION {{SubSeq(BucketFiles(b), 1, n) : n \in 0..MaxFiles} :
                              b \in Buckets}] :
     \A b \in Buckets : \E n \in 0..MaxFiles : md[b] = SubSeq(BucketFiles(b), 1, n)}

\* The loop of selectChantingWithRetry that stops one attempt early.
RECURSIVE RetryFromOneShort(_, _, _, _, _)
RetryFromOneShort(md, duration, i, maxRetries, draws) ==
  IF i >= maxRetries - 1 THEN Null
  ELSE LET file == getRandomChanting(md, duration, draws[i + 1])
       IN IF Truthy(file) THEN file
          ELSE RetryFromOneShort(md, duration, i + 1, maxRetries, draws)

\* for (let i = 0; i < maxRetries; i++): attempt i uses draw i + 1.
RECURSIVE RetryFrom(_, _, _, _, _)
RetryFrom(md, duration, i, maxRetries, draws) ==
  IF i >= maxRetries THEN Null
  ELSE LET file == getRandomChanting(md, duration, draws[i + 1])
       IN IF Truthy(file) THEN file
          ELSE RetryFrom(md, duration, i + 1, maxRetries, draws)

selectChantingWithRetry(md, duration, maxRetries, draws) ==
  RetryFrom(md, duration, 0, maxRetries, draws)

ChantInit ==
  /\ AppInit
  /\ PolicyIdle
  /\ TimerIdle
  /\ PlayerIdle
  /\ WakeIdle
  /\ chCatalog \in ChantCatalogs \cup {NullObj}
  /\ chBucket \in ChantingDuration
  /\ chRetries \in 1..MaxRetries
  /\ chResult = "unset"

ChantSelect ==
  /\ chResult = "unset"
  /\ \E draws \in [1..chRetries -> 1..(IF MaxFiles > 0 THEN MaxFiles ELSE 1)] :
       chResult' = selectChantingWithRetry(chCatalog, chBucket, chRetries, draws)
  /\ UNCHANGED <<chCatalog, chBucket, chRetries>>
  /\ UNCHANGED <<appVars, policyVars, timerVars, playerVars, wakeVars>>

ChantNext == ChantSelect

ChantSpec == ChantInit /\ [][ChantNext]_vars

\* ------------------------------------------------------------ useWakeLock
\* The hook of hooks/useWakeLock.ts with the browser around it: the page is
\* hidden and shown, and navigator.wakeLock.request settles in a later
\* task than the call.
MaxRequests == 2

ActivePhases == SessionPhase \ {"idle", "complete"}

WkSt ==
  [lockRef |-> wkLockRef, sentinels |-> wkSentinels, pending |-> wkPending,
   requests |-> wkRequests]

ApplyWake(s) ==
  /\ wkLockRef' = s.lockRef
  /\ wkSentinels' = s.sentinels
  /\ wkPending' = s.pending
  /\ wkRequests' = s.requests

\* request, up to its await: nothing without the API, else one call of
\* navigator.wakeLock.request('screen').
request(s) ==
  IF ~wkSupported THEN s
  ELSE [s EXCEPT !.pending = @ + 1, !.requests = @ + 1]

\* release: the sentinel of wakeLockRef is released and the ref set to null.
release(s) ==
  IF s.lockRef # NoLock
  THEN [s EXCEPT !.sentinels[s.lockRef] = "released", !.lockRef = NoLock]
  ELSE s

\* The sentinels that keep the screen awake.
HeldLocks == {i \in DOMAIN wkSentinels : wkSentinels[i] = "active"}

\* The phases a render can follow phase p with: a session starts from idle,
\* complete is left for idle, an active phase is left for any other phase.
PhasesAfter(p) ==
  CASE p = "idle" -> ActivePhases
    [] p = "complete" -> {"idle"}
    [] OTHER -> SessionPhase \ {p}

\* A render with a new phase and its effects: phaseRef.current = phase and
\* "Release on complete".
WakeRendered ==
  /\ \E p \in PhasesAfter(wkPhase) :
       /\ wkPhase' = p
       /\ wkPhaseRef' = p
       /\ ApplyWake(IF p = "complete" THEN release(WkSt) ELSE WkSt)
       /\ wkReleased' = IF p = "complete" THEN TRUE ELSE wkReleased
       /\ wkOp' = IF p = "complete" THEN "complete" ELSE "render"
  /\ UNCHANGED <<wkVisible, wkSupported>>
  /\ UNCHANGED <<appVars, policyVars, timerVars, playerVars, chantVars>>

\* The owner of the hook calls the returned request during a session.
WakeRequested ==
  /\ wkPhase \in ActivePhases
  /\ wkSupported => wkRequests < MaxRequests
  /\ ApplyWake(request(WkSt))
  /\ wkReleased' = FALSE
  /\ wkOp' = "request"
  /\ UNCHANGED <<wkPhase, wkPhaseRef, wkVisible, wkSupported>>
  /\ UNCHANGED <<appVars, policyVars, timerVars, playerVars, chantVars>>

\* The owner of the hook calls the returned release.
WakeReleased ==
  /\ ApplyWake(release(WkSt))
  /\ wkReleased' = TRUE
  /\ wkOp' = "release"
  /\ UNCHANGED <<wkPhase, wkPhaseRef, wkVisible, wkSupported>>
  /\ UNCHANGED <<appVars, policyVars, timerVars, playerVars, chantVars>>

\* The request resolves: request resumes after its await and stores the
\* new sentinel in wakeLockRef, whatever the ref held. The browser grants
\* a screen lock to a visible page only.
WakeGranted ==
  /\ wkPending > 0
  /\ wkVisible
  /\ wkSentinels' = Append(wkSentinels, "active")
  /\ wkLockRef' = Len(wkSentinels) + 1
  /\ wkPending' = wkPending - 1
  /\ wkOp' = "granted"
  /\ UNCHANGED <<wkPhase, wkPhaseRef, wkRequests, wkVisible, wkSupported,
                 wkReleased>>
  /\ UNCHANGED <<appVars, policyVars, timerVars, playerVars, chantVars>>

\* The request rejects: the catch of request logs it.
WakeDenied ==
  /\ wkPending > 0
  /\ wkPending' = wkPending - 1
  /\ wkOp' = "denied"
  /\ UNCHANGED <<wkPhase, wkPhaseRef, wkLockRef, wkSentinels, wkRequests,
                 wkVisible, wkSupported, wkReleased>>
  /\ UNCHANGED <<appVars, policyVars, timerVars, playerVars, chantVars>>

\* visibilitychange to hidden: the browser releases every screen lock of
\* the page; handleVisibilityChange does nothing and wakeLockRef keeps the
\* released sentinel.
WakeHidden ==
  /\ wkVisible
  /\ wkVisible' = FALSE
  /\ wkSentinels' = [i \in DOMAIN wkSentinels |-> "released"]
  /\ wkOp' = "hidden"
  /\ UNCHANGED <<wkPhase, wkPhaseRef, wkLockRef, wkPending, wkRequests,
                 wkSupported, wkReleased>>
  /\ UNCHANGED <<appVars, policyVars, timerVars, playerVars, chantVars>>

\* visibilitychange to visible: handleVisibilityChange calls request unless
\* phaseRef.current is idle or complete.
WakeShown ==
  /\ ~wkVisible
  /\ wkVisible' = TRUE
  /\ IF wkPhaseRef \in ActivePhases
     THEN /\ wkSupported => wkRequests < MaxRequests
          /\ ApplyWake(request(WkSt))
          /\ wkReleased' = FALSE
          /\ wkOp' = "visibleRequest"
     ELSE /\ ApplyWake(WkSt)
          /\ wkReleased' = wkReleased
          /\ wkOp' = "visibleOnly"
  /\ UNCHANGED <<wkPhase, wkPhaseRef, wkSupported>>
  /\ UNCHANGED <<appVars, policyVars, timerVars, playerVars, chantVars>>

WakeInit ==
  /\ AppInit
  /\ PolicyIdle
  /\ TimerIdle
  /\ PlayerIdle
  /\ ChantIdle
  /\ wkPhase = "idle"
  /\ wkPhaseRef = "idle"
  /\ wkLockRef = NoLock
  /\ wkSentinels = <<>>
  /\ wkPending = 0
  /\ wkRequests = 0
  /\ wkVisible = TRUE
  /\ wkSupported \in BOOLEAN
  /\ wkReleased = FALSE
  /\ wkOp = "init"

WakeNext ==
  \/ WakeRendered
  \/ WakeHidden
  \/ WakeShown
  \/ WakeGranted
  \/ WakeDenied
  \/ WakeRequested
  \/ WakeReleased

WakeSpec == WakeInit /\ [][WakeNext]_vars

\* ============================================================ properties
\* The asynchronous completions of a phase, and the user's ways out of it.
Completions == {"ended", "failed", "rejected", "timerDone"}

Triggers == Completions \cup {"skip", "stop"}

\* Where natural completion of phase p leads: the audio of p ending, or
\* the countdown of the meditation reaching zero.
NaturalTarget(p, intro, outro) ==
  IF p = "meditation" THEN TimerTarget(outro) ELSE ResolvedTarget(p, intro)

\* C1: a completion (audio ended, audio failed, countdown fired) that
\* belongs to a playback started for a phase the session has already left
\* does not change the phase.
C1_StaleCompletionDiscarded ==
  [][(lastOp' \in Completions /\ trigStale') => phase' = phase]_vars

\* C2: of natural completion, skip and stop, the first one processed for
\* an occurrence of a phase moves the phase, and a trigger that arrives
\* for an occurrence already left moves nothing.
C2_OneTransitionPerOccurrence ==
  [][lastOp' \in Triggers => ((phase' # phase) <=> ~trigStale')]_vars

C4_NeverStranded ==
  isSessionActive(phase) ~> (phase = "complete")

\* C5: every active phase has a skip button; a skip stops the audio and the
\* countdown of the phase and puts the session where natural completion of
\* the phase would.
C5_SkipIsNaturalCompletion ==
  [][/\ isSessionActive(phase) => phase \in SkipPhases
     /\ lastOp' = "skip" =>
          /\ phase' = NaturalTarget(phase, introDuration, outroDuration)
          /\ tickers' = (IF phase' = "meditation" THEN 1 ELSE 0)
          /\ audioRef'.st \in Unsettled =>
               (audioRef'.orig = phase' /\ ~audioRef'.stale)]_vars

C5_Witness ==
  /\ lastOp = "skip"
  /\ phase = "outro_chanting"
  /\ audioRef.st = "loading"
  /\ tickers = 0

\* C6: stop ends the audio and the countdown, drops the chant and puts the
\* session in idle, where it stays until the next start.
C6_StopLeadsToIdle ==
  [][/\ lastOp' = "stop" =>
          /\ phase' = "idle"
          /\ audioRef' = NoAudio
          /\ tickers' = 0
          /\ timerRef' = Null
          /\ currentChanting' = Null
          /\ timeRemaining' = 0
          /\ audioProgress' = ZeroProgress
     /\ (phase = "idle" /\ phase' # "idle") => lastOp' = "start"]_vars

C6_Witness ==
  /\ lastOp = "rejected"
  /\ phase = "idle"
  /\ rejections = {}

\* ------------------------------------------- properties of the policy
\* A file reference that names a file.
IsSet(f) == f \notin {Null, ""}

\* The transition table of the specification.
TableNext(p, c) ==
  CASE p = "gong" /\ c.mode = "guided" -> "guided_session"
    [] p = "gong" /\ c.mode # "guided" /\ IsSet(c.introFile) -> "intro"
    [] p = "gong" /\ c.mode # "guided" /\ ~IsSet(c.introFile) -> "meditation"
    [] p = "intro" -> "meditation"
    [] p = "meditation" /\ IsSet(c.outroFile) -> "outro_chanting"
    [] p = "meditation" /\ ~IsSet(c.outroFile) -> "outro"
    [] p = "outro_chanting" -> "outro"
    [] p = "outro" -> "complete"
    [] p = "guided_session" -> "complete"
    [] p \in {"idle", "complete"} -> "idle"

\* firstPhase(config) of the specification.
TableFirst(c) ==
  CASE c.enableGong -> "gong"
    [] ~c.enableGong /\ c.mode = "guided" -> "guided_session"
    [] ~c.enableGong /\ c.mode # "guided" /\ IsSet(c.introFile) -> "intro"
    [] ~c.enableGong /\ c.mode # "guided" /\ ~IsSet(c.introFile) -> "meditation"

\* C7: getNextPhase gives a phase for every phase and every configuration,
\* the null configuration included, and gives back its argument only for
\* idle and complete.
C7_NextPhaseTotalAndMoves ==
  pNext # Null =>
    /\ pNext \in SessionPhase
    /\ pNext = pPhase => pPhase \in {"idle", "complete"}

C7_Witness ==
  /\ pNext = "idle"
  /\ pPhase = "outro_chanting"
  /\ IsNull(pConfig)

\* C8: getNextPhase gives the phase of the transition table.
C8_NextPhaseIsTable ==
  (pNext # Null /\ ~IsNull(pConfig)) => pNext = TableNext(pPhase, pConfig)

C8_Witness ==
  /\ pNext = "guided_session"
  /\ pPhase = "gong"
  /\ ~IsNull(pConfig)
  /\ pConfig.introFile = "x.mp3"

\* C9: getFirstPhase gives gong, else guided_session, else intro, else
\* meditation, by the configuration; never idle, outro_chanting, outro or
\* complete.
C9_FirstPhase ==
  walk # <<>> =>
    /\ walk[1] = TableFirst(pConfig)
    /\ walk[1] \notin {"idle", "outro_chanting", "outro", "complete"}

C9_Witness ==
  /\ Len(walk) = 1
  /\ walk[1] = "guided_session"
  /\ pConfig.introFile = "x.mp3"

\* C10: the walk from getFirstPhase by getNextPhase visits no phase twice
\* and ends in complete.
C10_WalkReachesComplete ==
  /\ \A i, j \in DOMAIN walk : i # j => walk[i] # walk[j]
  /\ \A i \in DOMAIN walk : walk[i] # "idle"
  /\ Len(walk) < WalkCap
  /\ (walk # <<>> /\ ~ENABLED WalkStep) => Last(walk) = "complete"

C10_Witness ==
  walk = <<"gong", "intro", "meditation", "outro_chanting", "outro",
           "complete">>

\* ----------------------------------------- properties of the countdown
\* C11: each run invokes onComplete at most once, not inside the update
\* that sets the remaining time to zero, and at zero the ticking stops.
C11_CompletesOncePerRun ==
  [][/\ tmOp'[1] = "zero" => (tmCalls' = tmCalls /\ tmLive' = {})
     /\ \A r \in DOMAIN tmCalls' : tmCalls'[r] <= 1]_vars

\* C12: at most one interval of the countdown is live.
C12_OneTicker ==
  Cardinality(tmLive) <= 1

C14_StopCancelsEverything ==
  /\ tmOp[1] = "stop" =>
       \A i \in DOMAIN tmDeferred : tmDeferred[i] \notin tmStopped
  /\ tmOp[1] \in {"tick", "zero", "complete"} => tmOp[2] \notin tmStopped

\* ------------------------------------------- properties of the player
\* The elements that are loading or playing.
LiveElems == {id \in DOMAIN plElems : plElems[id].st \in Unsettled}

C17_PlayerStopIdempotent ==
  /\ PlayerStopped(PlayerStopped(PlSt)) = PlayerStopped(PlSt)
  /\ (plAudioRef = NoElem /\ plFadeRef = NoElem /\ plProgress = ZeroProgress)
       => PlayerStopped(PlSt) = PlSt
  /\ plOp[1] \in {"stop", "stopFade"} =>
       /\ plAudioRef = NoElem
       /\ plFadeRef = NoElem
       /\ plFades = {}
       /\ LiveElems = {}
       /\ plProgress = ZeroProgress

C17_Witness ==
  /\ plOp = <<"stopFade", 1>>
  /\ plElems[1].st = "paused"
  /\ plRejecting = {1}

\* Volumes as fractions: a <= b.
VolLeq(a, b) == a.num * b.den <= b.num * a.den

\* The live fade intervals that were started for element id.
FadesOf(id) == {f \in plFades : f.elem = id}

\* The volume of every element is at most 1; an element played without a
\* fade has no ramp and full volume; a live ramp belongs to the element of
\* audioRef, has made fewer ticks than its steps, and after k ticks the
\* volume is k / steps; the element of audioRef whose ramp is over has
\* full volume.
RampShape ==
  /\ Cardinality(plFades) <= 1
  /\ \A id \in DOMAIN plElems :
       LET e == plElems[id]
       IN /\ VolLeq(e.volume, FullVolume)
          /\ e.fadeIn = 0 => (FadesOf(id) = {} /\ e.volume = FullVolume)
          /\ \A f \in FadesOf(id) :
               /\ f.steps = e.fadeIn
               /\ f.step < f.steps
               /\ plFadeRef = id
               /\ plAudioRef = id
               /\ e.volume.num * f.steps = f.step * e.volume.den
          /\ (e.fadeIn > 0 /\ FadesOf(id) = {} /\ plAudioRef = id) =>
               e.volume = FullVolume

C30_StoppedNeverSettles ==
  [][\A id \in DOMAIN plElems :
       ~plElems[id].attached => plPromise'[id] = plPromise[id]]_vars

\* C18: progress is {0, 0} unless the element of audioRef is loading or
\* playing.
C18_ProgressZeroWhenIdle ==
  (plAudioRef = NoElem \/ plElems[plAudioRef].st \notin Unsettled) =>
    plProgress = ZeroProgress

\* ------------------------------------ properties of the session drivers
\* C19: the countdown ticks in meditation only, audio loads or plays in
\* the audio phases only, never both at once, and neither in idle or
\* complete.
C19_DriversNeverOverlap ==
  /\ tickers > 0 => phase = "meditation"
  /\ audioRef.st \in Unsettled => phase \in AudioPhases
  /\ ~(tickers > 0 /\ audioRef.st \in Unsettled)
  /\ phase \in {"idle", "complete"} =>
       (tickers = 0 /\ audioRef.st \notin Unsettled)

C21_EmptyBucketRefusesStart ==
  (/\ lastOp = "start"
   /\ \/ ~hasChanting(metadata, introDuration)
      \/ ~hasChanting(metadata, outroDuration)) =>
    /\ phase = "idle"
    /\ audioRef = NoAudio
    /\ tickers = 0
    /\ timerRef = Null

\* C22: while the catalog is absent no step leaves idle or starts audio or
\* a countdown, and a loaded catalog is never replaced or dropped.
C22_NoCatalogNoSession ==
  [][/\ IsNull(metadata) =>
          /\ phase' = "idle"
          /\ audioRef' = NoAudio
          /\ tickers' = 0
          /\ timerRef' = Null
     /\ ~IsNull(metadata) => metadata' = metadata]_vars

C22_Witness ==
  /\ fetchState = "failed"
  /\ IsNull(metadata)
  /\ phase = "idle"
  /\ enableGong
  /\ introDuration = "none"
  /\ lastOp = "set"

\* ------------------------------------- scenarios of the phase policy
\* w is an initial part of s.
IsPrefix(w, s) == Len(w) <= Len(s) /\ w = SubSeq(s, 1, Len(w))

\* C23: custom mode, no gong, no intro file, an outro file: the walk is
\* meditation, outro_chanting, outro, complete and nothing else.
C23_CustomOutroOnlyWalk ==
  (/\ ~IsNull(pConfig)
   /\ pConfig.mode = "custom"
   /\ ~pConfig.enableGong
   /\ pConfig.introFile = Null
   /\ pConfig.outroFile = "x.mp3") =>
    /\ IsPrefix(walk, <<"meditation", "outro_chanting", "outro", "complete">>)
    /\ (walk # <<>> /\ ~ENABLED WalkStep) => Len(walk) = 4

C23_Witness ==
  /\ walk = <<"meditation", "outro_chanting", "outro", "complete">>
  /\ pConfig.mode = "custom"
  /\ ~pConfig.enableGong
  /\ pConfig.introFile = Null
  /\ pConfig.outroFile = "x.mp3"

\* C24: guided mode with the gong and long instructions: the walk is gong,
\* guided_session, complete, and guided_session plays the long
\* instruction file.
C24_GuidedGongLongWalk ==
  (/\ ~IsNull(pConfig)
   /\ pConfig.mode = "guided"
   /\ pConfig.enableGong
   /\ pConfig.instructionType = "long") =>
    /\ IsPrefix(walk, <<"gong", "guided_session", "complete">>)
    /\ (walk # <<>> /\ ~ENABLED WalkStep) => Len(walk) = 3
    /\ (pPhase = "guided_session" /\ pAudio # "unset") =>
         pAudio = "/audio/guided/long.mp3"

C24_Witness ==
  /\ walk = <<"gong", "guided_session", "complete">>
  /\ pConfig.mode = "guided"
  /\ pConfig.enableGong
  /\ pConfig.instructionType = "long"
  /\ pPhase = "guided_session"
  /\ pAudio = "/audio/guided/long.mp3"

\* The chant resource of a file reference, null for none.
ChantResource(f) ==
  CASE f = "x.mp3" -> "/audio/chanting/x.mp3"
    [] f \in {Null, ""} -> Null

\* C25: getAudioForPhase gives the gong file for gong, the chant resource
\* of introFile for intro and of outroFile for outro_chanting, the closing
\* file for outro, the short or long instruction file for guided_session,
\* and null for meditation, idle and complete.
C25_AudioForPhase ==
  (pAudio # "unset" /\ ~IsNull(pConfig)) =>
    pAudio =
      CASE pPhase = "gong" -> "/audio/gong.mp3"
        [] pPhase = "intro" -> ChantResource(pConfig.introFile)
        [] pPhase = "outro_chanting" -> ChantResource(pConfig.outroFile)
        [] pPhase = "outro" -> "/audio/outro.webm"
        [] pPhase = "guided_session" /\ pConfig.instructionType = "short" ->
             "/audio/guided/short.mp3"
        [] pPhase = "guided_session" /\ pConfig.instructionType = "long" ->
             "/audio/guided/long.mp3"
        [] pPhase \in {"meditation", "idle", "complete"} -> Null

C25_Witness ==
  /\ pAudio = "/audio/chanting/x.mp3"
  /\ pPhase = "outro_chanting"
  /\ pConfig.introFile = Null
  /\ pConfig.outroFile = "x.mp3"

\* ------------------------------------- properties of the phase order
\* The order of the phases of a session.
PhaseOrder ==
  <<"gong", "intro", "meditation", "outro_chanting", "outro", "complete">>

\* p comes before q in the order of the phases.
ComesBefore(p, q) ==
  \E i, j \in DOMAIN PhaseOrder :
    i < j /\ PhaseOrder[i] = p /\ PhaseOrder[j] = q

\* C26: within a session every change of phase goes forward in the order
\* gong, intro, meditation, outro_chanting, outro, complete, so no phase
\* is entered twice; a session begins by leaving idle at a start and is
\* left for idle only by stop or new session.
C26_PhasesGoForward ==
  [][/\ (phase # "idle" /\ phase' # "idle" /\ phase' # phase) =>
          ComesBefore(phase, phase')
     /\ (phase # "idle" /\ phase' = "idle") => lastOp' \in {"stop", "new"}
     /\ (phase = "idle" /\ phase' # "idle") => lastOp' = "start"]_vars

C26_Witness ==
  /\ phase = "complete"
  /\ lastOp = "failed"
  /\ enableGong
  /\ introDuration # "none"
  /\ outroDuration # "none"
  /\ rejections # {}

\* ---------------------------------------- properties of the wake lock
\* C27: a page shown in an active phase asks for the lock again, a page
\* shown in idle or complete does not, and while the phase is complete no
\* sentinel is active and wakeLockRef is empty.
C27_WakeLockFollowsPhase ==
  /\ wkOp = "visibleRequest" =>
       /\ wkPhase \in ActivePhases
       /\ wkSupported => wkPending > 0
  /\ wkOp = "visibleOnly" => wkPhase \in {"idle", "complete"}
  /\ wkPhase = "complete" => (HeldLocks = {} /\ wkLockRef = NoLock)

\* ------------------------------------ properties of the two hooks together
\* C29: play and stop of the playback controller leave the countdown's
\* interval, its ref, its running flag and the remaining time as they
\* were; start and stop of the countdown leave the audio handle, the
\* elements, the fade interval and the progress as they were.
C29_HooksKeepApart ==
  [][/\ (HooksPlay \/ HooksStop) =>
          UNCHANGED <<tmTimerRef, tmLive, tmIsRunning, tmRemaining>>
     /\ (HooksStart \/ HooksTimerStop) =>
          UNCHANGED <<plAudioRef, plElems, plFadeRef, plFades,
                      plProgress, plRejecting>>]_vars

C29_Witness ==
  /\ plOp[1] = "stopFade"
  /\ tmLive # {}
  /\ tmRemaining > 0
  /\ tmOp[1] = "tick"

\* ------------------------------- properties of the walk and its audio
\* C31: every phase of the walk but meditation and complete has a
\* resource to play; intro is on the walk only with an intro file and
\* outro_chanting only with an outro file.
C31_AudioPhasesHaveAudio ==
  /\ Len(walkAudio) = Len(walk)
  /\ \A i \in DOMAIN walk :
       /\ walk[i] \notin {"meditation", "complete"} => walkAudio[i] # Null
       /\ walk[i] = "intro" => IsSet(pConfig.introFile)
       /\ walk[i] = "outro_chanting" => IsSet(pConfig.outroFile)

C31_Witness ==
  /\ walk = <<"intro", "meditation", "outro_chanting", "outro", "complete">>
  /\ walkAudio = <<"/audio/chanting/x.mp3", Null, "/audio/chanting/x.mp3",
                   "/audio/outro.webm", Null>>

\* C32: a guided walk has none of intro, meditation, outro_chanting and
\* outro, whatever its intro and outro files, and a custom walk has no
\* guided_session.
C32_ModesNeverMix ==
  \A i \in DOMAIN walk :
    /\ pConfig.mode = "guided" =>
         walk[i] \notin {"intro", "meditation", "outro_chanting", "outro"}
    /\ pConfig.mode = "custom" => walk[i] # "guided_session"

C32_Witness ==
  /\ walk = <<"gong", "guided_session", "complete">>
  /\ pConfig.introFile = "x.mp3"
  /\ pConfig.outroFile = "x.mp3"

\* C33: at most one sentinel is active at a time, and when release has run,
\* request has not been called since and no request is in flight, none is
\* active.
C33_OneLockReleased ==
  /\ Cardinality(HeldLocks) <= 1
  /\ (wkReleased /\ wkPending = 0) => HeldLocks = {}

\* ------------------------------- properties of the countdown's arithmetic
\* C34: the remaining time of a run started with start(m) is a whole number
\* of seconds from 0 to m * 60; every tick lowers it by exactly 1; and a
\* tick schedules the completion callback exactly when it is the
\* (m * 60)-th firing of the run's interval.
C34_CountdownExact ==
  [][/\ tmRuns' > 0 =>
          tmRemaining' \in 0..(tmMinutes'[tmRuns'] * SecondsPerMinute)
     /\ IntervalFires =>
          /\ tmRemaining' = tmRemaining - 1
          /\ Len(tmDeferred') > Len(tmDeferred) <=>
               tmTicks'[tmOp'[2]] = tmMinutes[tmOp'[2]] * SecondsPerMinute]_vars

====
